---- MODULE Spec2Model ----
(***************************************************************************)
(* A model of dataclassy's metaclass (src/dataclassy/dataclass.py) and of  *)
(* its decorator (src/dataclassy/decorator.py).                            *)
(*                                                                         *)
(* The state is the list of record types created so far (each the dict_    *)
(* that DataClassMeta.__new__ hands to type.__new__, together with what    *)
(* type.__new__ derives from it: the linearization, the instance layout),  *)
(* the heap of mutable values (lists) that defaults and fields refer to,   *)
(* the instances constructed so far and a record of the last operation.    *)
(***************************************************************************)
EXTENDS Integers, Sequences, FiniteSets, TLC

VARIABLES classes, heap, insts, last

vars == <<classes, heap, insts, last>>

-----------------------------------------------------------------------------
(* Bounds of the exploration.                                              *)

MaxClasses == 3
MaxInstanceClasses == 2
MaxMethodClasses == 4
MaxInsts == 2
MaxDepth == 2
MaxAppend == 1

-----------------------------------------------------------------------------
(* Small helpers.                                                          *)

Range(s) == {s[i] : i \in DOMAIN s}

Min(S) == CHOOSE x \in S : \A y \in S : x <= y

\* dict.update on plain mappings: the entries of new win, those of old stay
Update(old, new) == [k \in DOMAIN old \cup DOMAIN new |-> IF k \in DOMAIN new THEN new[k] ELSE old[k]]

Restrict(f, S) == [k \in DOMAIN f \cap S |-> f[k]]

EmptyMap == [k \in {} |-> 0]

\* the keys of an insertion-ordered dict of annotations, in order
Keys(ann) == [i \in DOMAIN ann |-> ann[i].n]

KeySet(ann) == {ann[i].n : i \in DOMAIN ann}

Lookup(ann, name) == ann[CHOOSE i \in DOMAIN ann : ann[i].n = name]

OrderedUpdate_mutant(old, new) == SelectSeq(old, LAMBDA e : e.n \notin KeySet(new)) \o new

\* dict.update on an insertion-ordered dict: an existing key keeps its place
\* and takes the new value, a new key is appended
RECURSIVE OrderedUpdate(_, _)
OrderedUpdate(old, new) ==
  IF new = <<>> THEN old
  ELSE LET e == Head(new)
           put == IF e.n \in KeySet(old)
                  THEN [i \in DOMAIN old |-> IF old[i].n = e.n THEN e ELSE old[i]]
                  ELSE Append(old, e)
       IN OrderedUpdate(put, Tail(new))

-----------------------------------------------------------------------------
(* Values: an int (ref = FALSE, v the number), a reference to a list on    *)
(* the heap (ref = TRUE, v its address) or a reference to an instance (obj *)
(* is there, v its place in `insts`).  Only a list has a copy method.      *)

Atom(k) == [ref |-> FALSE, v |-> k]
Ref(k) == [ref |-> TRUE, v |-> k]
Obj(i) == [ref |-> FALSE, v |-> i, obj |-> TRUE]

IsObj(val) == "obj" \in DOMAIN val

hasattr_copy(val) == val.ref

-----------------------------------------------------------------------------
(* Type hints.  A hint is modelled by the wrappers found in its __args__   *)
(* (h) and by the class body that wrote it (t).                            *)

is_hinted(wrapper, hint) == wrapper \in hint.h

-----------------------------------------------------------------------------
(* Functions found in a class dict.                                        *)

Fn(kind, name, by, ann, defs, ui, kw, fr) ==
  [kind |-> kind, name |-> name, by |-> by, ann |-> ann, defs |-> defs,
   user_init |-> ui, gen_kwargs |-> kw, frozen |-> fr]

NoFn == Fn("none", "", 0, <<>>, EmptyMap, FALSE, FALSE, FALSE)

\* a function written by the user in the body of class `by`
UserFn(name, by) == Fn("user", name, by, <<>>, EmptyMap, FALSE, FALSE, FALSE)

\* the module-level generic methods (__eq__, __repr__, __iter__, __lt__, __setattr__)
GenericFn(name) == Fn("generic", name, 0, <<>>, EmptyMap, FALSE, FALSE, FALSE)

\* the comparisons that functools.total_ordering derives from __lt__
OrderingFn(name) == Fn("functools", name, 0, <<>>, EmptyMap, FALSE, FALSE, FALSE)

MethodNames == {"__init__", "__post_init__", "__repr__", "__eq__", "__iter__",
                "__setattr__", "__delattr__", "__lt__", "__le__", "__gt__", "__ge__",
                "__hash__", "f"}

\* user_func: the object itself when it is a plain function without the
\* __dataclass__ marker, else None.  Only eval_function sets that marker, so
\* the generic module-level methods pass as user functions too, and so do
\* the functions of functools.
user_func(obj) == IF obj.kind \in {"user", "generic", "functools"} THEN obj ELSE NoFn

Truthy(fn) == fn.kind # "none"

\* Python's `x or y` on functions and None
Or(x, y) == IF Truthy(x) THEN x ELSE y

-----------------------------------------------------------------------------
(* DataClassMeta.                                                          *)

OptionNames == {"init", "repr", "eq", "iter", "frozen", "kwargs", "slots",
                "order", "unsafe_hash", "hide_internals"}

DEFAULT_OPTIONS ==
  [o \in OptionNames |-> o \in {"init", "repr", "eq", "unsafe_hash", "hide_internals"}]

\* what vars(cls) shows of a class to DataClassMeta.__new__ (the member
\* descriptors of its slots and its __dict__ entry are left out: lines 51-52
\* drop them from dict_, and no line reads them from a base)
VarsOf(c) ==
  [ann |-> c.ann, cattr |-> c.cattr, meth |-> c.meth,
   hasDefaults |-> TRUE, defaults |-> c.defs,
   hasOpts |-> TRUE, opts |-> c.opts,
   hasSlots |-> c.hasSlots, slots |-> c.slots]

\* the parameter list of the generated __init__, without *args and **kwargs
arguments(annotations, defaults) ==
  SelectSeq(Keys(annotations), LAMBDA a : a \notin DOMAIN defaults)

default_arguments(annotations, defaults) ==
  SelectSeq(Keys(annotations), LAMBDA a : a \in DOMAIN defaults)

parameters_mutant(fn) == Keys(fn.ann)

parameters(fn) == arguments(fn.ann, fn.defs) \o default_arguments(fn.ann, fn.defs)

generate_init(annotations, defaults, user_init, gen_kwargs, frozen, by) ==
  Fn("init", "__init__", by, annotations, defaults, user_init, gen_kwargs, frozen)

generate_hash(annotations, by) ==
  Fn("hash", "__hash__", by, annotations, EmptyMap, FALSE, FALSE, FALSE)

\* one pass of the loop of lines 63-73 over a base's vars (or over dict_ itself)
CollectStep(acc, b) ==
  LET copied == [m \in MethodNames |->
                   IF Truthy(user_func(b.meth[m])) /\ ~Truthy(acc.meth[m])
                   THEN b.meth[m] ELSE acc.meth[m]]
  IN [ann |-> OrderedUpdate(acc.ann, b.ann),
      defs |-> IF b.hasDefaults THEN Update(acc.defs, b.defaults) ELSE acc.defs,
      slots |-> IF b.hasSlots THEN acc.slots \cup b.slots ELSE acc.slots,
      opts |-> IF b.hasOpts THEN Update(acc.opts, b.opts) ELSE acc.opts,
      meth |-> copied,
      post_init |-> Or(acc.post_init,
                       Or(user_func(b.meth["__init__"]), user_func(b.meth["__post_init__"])))]

RECURSIVE Collect(_, _, _)
Collect(acc, bs, i) ==
  IF i > Len(bs) THEN acc ELSE Collect(CollectStep(acc, VarsOf(bs[i])), bs, i + 1)

-----------------------------------------------------------------------------
(* What type.__new__ (line 122) derives from the bases and dict_ it gets.  *)
(* A class is named by its place in `classes`; 0 stands for object.        *)

\* the C3 merge of the linearizations of the bases; <<0>> when there is none
RECURSIVE C3Merge(_)
C3Merge(seqs) ==
  LET ne == SelectSeq(seqs, LAMBDA q : q # <<>>)
  IN IF ne = <<>> THEN <<>>
     ELSE LET good == {k \in DOMAIN ne :
                         \A j \in DOMAIN ne : Head(ne[k]) \notin Range(Tail(ne[j]))}
          IN IF good = {} THEN <<0>>
             ELSE LET h == Head(ne[Min(good)])
                      rest == C3Merge([j \in DOMAIN ne |->
                                         IF Head(ne[j]) = h THEN Tail(ne[j]) ELSE ne[j]])
                  IN <<h>> \o rest

\* the __mro__ of a new class `self` with these bases (without object)
Linearize(cs, self, bases) ==
  <<self>> \o C3Merge([i \in 1..(Len(bases) + 1) |->
                         IF i <= Len(bases) THEN cs[bases[i]].mro ELSE bases])

IsSubtype(cs, c, d) == d = 0 \/ (c # 0 /\ d \in Range(cs[c].mro))

SolidOf(cs, c) == IF c = 0 THEN 0 ELSE cs[c].solid

\* best_base: the solid base of the bases, 0 for object; -1 when two bases
\* have slots of their own and neither extends the other (lay-out conflict)
RECURSIVE BestBase(_, _, _, _)
BestBase(cs, bases, i, winner) ==
  IF i > Len(bases) THEN winner
  ELSE LET cand == SolidOf(cs, bases[i])
       IN IF IsSubtype(cs, winner, cand) THEN BestBase(cs, bases, i + 1, winner)
          ELSE IF IsSubtype(cs, cand, winner) THEN BestBase(cs, bases, i + 1, cand)
          ELSE -1

\* the class that type.__new__ builds from dict_ d, or ok = FALSE when it raises
TypeMade(cs, self, bases, d, mro, best) ==
  [ok |-> 0 \notin Range(mro) /\ best # -1,
   bases |-> bases,
   mro |-> mro,
   solid |-> IF d.hasSlots /\ d.slots # {} THEN self ELSE best,
   \* an instance gets a __dict__ unless every class of the lay-out has __slots__
   hasDict |-> ~d.hasSlots \/ \E i \in DOMAIN bases : cs[bases[i]].hasDict,
   ann |-> d.ann, defs |-> d.defaults, opts |-> d.opts,
   hasSlots |-> d.hasSlots, slots |-> d.slots,
   cattr |-> d.cattr, meth |-> d.meth,
   tuple |-> <<>>]

TypeNew(cs, self, bases, d) ==
  TypeMade(cs, self, bases, d, Linearize(cs, self, bases), BestBase(cs, bases, 1, 0))

-----------------------------------------------------------------------------
(* functions.fields, as DataClassMeta.__init__ uses it: the annotations    *)
(* without the internal fields (a name with a leading underscore, or a     *)
(* hint wrapped in Internal) unless internals are asked for.               *)

FieldNames == {"a", "b", "_c"}

LeadingUnderscore(name) == name \in {"_c"}

IsInternal(e) == LeadingUnderscore(e.n) \/ is_hinted("Internal", e)

fields(annotations, internals) ==
  IF internals THEN annotations ELSE SelectSeq(annotations, LAMBDA e : ~IsInternal(e))

-----------------------------------------------------------------------------
(* DataClassMeta.__new__ followed by DataClassMeta.__init__: the class     *)
(* created from `bases`, the dict `dict_` and the options `kwargs`; `self` *)
(* is the place the new class takes in `classes`.                          *)

Present(fn) == fn.kind # "none"

\* dict_.setdefault(name, fn) when `on` holds
SetDefault(on, meth, name, fn) ==
  IF on /\ ~Present(meth[name]) THEN [meth EXCEPT ![name] = fn] ELSE meth

\* lines 56-73: what the loop over dataclass_bases + [dict_] collects; its
\* last pass reads dict_ itself, with the methods copied so far
LastPass(overBases, dict_) == CollectStep(overBases, [dict_ EXCEPT !.meth = overBases.meth])

CollectAll(cs, bases, dict_) ==
  LastPass(Collect([ann |-> <<>>, defs |-> EmptyMap, slots |-> {}, opts |-> DEFAULT_OPTIONS,
                    meth |-> dict_.meth, post_init |-> NoFn],
                   [i \in DOMAIN bases |-> cs[bases[i]]], 1),
           dict_)

\* lines 98-102
WithInit(meth, gen, post_init, init) ==
  IF ~gen THEN meth
  ELSE [meth EXCEPT !["__post_init__"] =
                      IF ~Truthy(post_init) THEN @
                      ELSE IF Present(meth["__init__"]) THEN meth["__init__"] ELSE post_init,
                    !["__init__"] = init]

\* lines 113-114
WithFrozen(meth, frozen) ==
  IF frozen THEN [meth EXCEPT !["__delattr__"] = GenericFn("__setattr__"),
                              !["__setattr__"] = GenericFn("__setattr__")]
  ELSE meth

\* type.__new__ sets __hash__ to None in a dict that has __eq__ and no __hash__
WithHashNone(meth) ==
  SetDefault(Present(meth["__eq__"]), meth, "__hash__",
             Fn("None", "__hash__", 0, <<>>, EmptyMap, FALSE, FALSE, FALSE))

\* lines 98-120: the methods of the new class
Methods(meth, all_annotations, all_defaults, post_init, options, self) ==
  WithHashNone(
    SetDefault((options["eq"] /\ options["frozen"]) \/ options["unsafe_hash"],
      SetDefault(options["order"],
        WithFrozen(
          SetDefault(options["iter"],
            SetDefault(options["eq"],
              SetDefault(options["repr"],
                WithInit(meth, options["init"] /\ all_annotations # <<>>, post_init,
                         generate_init(all_annotations, all_defaults, Truthy(post_init),
                                       options["kwargs"], options["frozen"], self)),
                "__repr__", GenericFn("__repr__")),
              "__eq__", GenericFn("__eq__")),
            "__iter__", GenericFn("__iter__")),
          options["frozen"]),
        "__lt__", GenericFn("__lt__")),
      "__hash__", generate_hash(all_annotations, self)))

\* total_ordering(cls): each of __le__, __gt__, __ge__ that the class does
\* not resolve to a function of its own or of a class above it is set on it
total_ordering(cs, made) ==
  [made EXCEPT !.meth =
     [m \in MethodNames |->
        IF /\ m \in {"__le__", "__gt__", "__ge__"}
           /\ ~Present(made.meth[m])
           /\ \A d \in Range(Tail(made.mro)) \ {0} : ~Present(cs[d].meth[m])
        THEN OrderingFn(m) ELSE made.meth[m]]]

WithOrdering_mutant(cs, made) ==
  IF made.opts["order"] THEN total_ordering(cs, made) ELSE made

\* lines 126-128
WithOrdering(cs, made) ==
  IF made.opts["eq"] /\ made.opts["order"] THEN total_ordering(cs, made) ELSE made

\* lines 130-133: DataClassMeta.__init__ evaluates the __tuple__ property
MetaInit(made) == [made EXCEPT !.tuple = Keys(fields(made.ann, FALSE))]

\* lines 75-122, with the collected `all`, the merged `options` and `all_defaults`
Build(cs, self, bases, dict_, all, options, all_defaults) ==
  MetaInit(WithOrdering(cs, TypeNew(cs, self, bases,
    [ann |-> all.ann,
     \* lines 88-96
     cattr |-> IF options["slots"] THEN Restrict(dict_.cattr, DOMAIN dict_.cattr \ KeySet(all.ann))
               ELSE dict_.cattr,
     meth |-> Methods(all.meth, all.ann, all_defaults, all.post_init, options, self),
     hasDefaults |-> TRUE, defaults |-> all_defaults,
     hasOpts |-> TRUE, opts |-> options,
     hasSlots |-> options["slots"],
     slots |-> IF options["slots"] THEN KeySet(all.ann) \ all.slots ELSE {}])))

Merged_mutant(cs, self, bases, dict_, kwargs, all) ==
  Build(cs, self, bases, dict_, all,
        Update(kwargs, all.opts),
        Update(all.defs, Restrict(dict_.cattr, KeySet(all.ann))))

\* lines 77-78
Merged(cs, self, bases, dict_, kwargs, all) ==
  Build(cs, self, bases, dict_, all,
        Update(all.opts, kwargs),
        Update(all.defs, Restrict(dict_.cattr, KeySet(all.ann))))

DataClassMeta(cs, self, bases, dict_, kwargs) ==
  Merged(cs, self, bases, dict_, kwargs, CollectAll(cs, bases, dict_))

-----------------------------------------------------------------------------
(* Attribute access on instances, as the interpreter does it for the       *)
(* classes above.  An instance keeps the values of its slots (slot) apart  *)
(* from those of its __dict__ (dict).                                      *)

\* the first entry for `name` along the linearization of class c
TypeLookup(cs, c, name) ==
  LET mro == cs[c].mro
      has == {i \in DOMAIN mro : Present(cs[mro[i]].meth[name])}
  IN IF has = {} THEN NoFn ELSE cs[mro[Min(has)]].meth[name]

\* how the type resolves a field name: "slot" (a member descriptor), "attr" (a
\* class attribute, the default left in a class dict) or "none"
TypeAttr(cs, c, name) ==
  LET mro == cs[c].mro
      has == {i \in DOMAIN mro : name \in cs[mro[i]].slots \/ name \in DOMAIN cs[mro[i]].cattr}
  IN IF has = {} THEN "none"
     ELSE IF name \in cs[mro[Min(has)]].slots THEN "slot" ELSE "attr"

\* object.__setattr__(self, name, value): the instance after it, or an error
ObjectSetAttr(cs, inst, name, value) ==
  IF TypeAttr(cs, inst.cls, name) = "slot"
  THEN [err |-> "", inst |-> [inst EXCEPT !.slot = Update(@, [k \in {name} |-> value])]]
  ELSE IF cs[inst.cls].hasDict
  THEN [err |-> "", inst |-> [inst EXCEPT !.dict = Update(@, [k \in {name} |-> value])]]
  ELSE [err |-> "AttributeError", inst |-> inst]

\* __setattr__ of line 216, installed on a frozen class as __setattr__ and __delattr__
__setattr__(inst) == [err |-> "AttributeError", inst |-> inst]

SetAttr_mutant(cs, inst, name, value) == ObjectSetAttr(cs, inst, name, value)

\* `self.name = value`
SetAttr(cs, inst, name, value) ==
  IF Present(TypeLookup(cs, inst.cls, "__setattr__"))
  THEN __setattr__(inst)
  ELSE ObjectSetAttr(cs, inst, name, value)

\* `del self.name`
DelAttr(cs, inst, name) ==
  IF Present(TypeLookup(cs, inst.cls, "__delattr__"))
  THEN __setattr__(inst)
  ELSE IF TypeAttr(cs, inst.cls, name) = "slot" /\ name \in DOMAIN inst.slot
  THEN [err |-> "", inst |-> [inst EXCEPT !.slot = Restrict(@, DOMAIN @ \ {name})]]
  ELSE IF TypeAttr(cs, inst.cls, name) # "slot" /\ name \in DOMAIN inst.dict
  THEN [err |-> "", inst |-> [inst EXCEPT !.dict = Restrict(@, DOMAIN @ \ {name})]]
  ELSE [err |-> "AttributeError", inst |-> inst]

HasAttr(cs, inst, name) ==
  IF TypeAttr(cs, inst.cls, name) = "slot" THEN name \in DOMAIN inst.slot
  ELSE name \in DOMAIN inst.dict \/ TypeAttr(cs, inst.cls, name) = "attr"

ClassAttr(cs, c, name) ==
  LET mro == cs[c].mro
      k == Min({i \in DOMAIN mro : name \in DOMAIN cs[mro[i]].cattr})
  IN cs[mro[k]].cattr[name]

\* `self.name`, where HasAttr holds
GetAttr(cs, inst, name) ==
  IF TypeAttr(cs, inst.cls, name) = "slot" THEN inst.slot[name]
  ELSE IF name \in DOMAIN inst.dict THEN inst.dict[name]
  ELSE ClassAttr(cs, inst.cls, name)

NewInstance(c) == [cls |-> c, slot |-> EmptyMap, dict |-> EmptyMap]

-----------------------------------------------------------------------------
(* The generic methods (lines 194-217) and the generated __hash__.         *)

\* the value behind a field or a default: the length of the list, or the int
Deref(hp, val) == IF val.ref THEN hp[val.v] ELSE val.v

\* == on two values: ints by number, lists by content
ValueEq(hp, x, y) == x.ref = y.ref /\ Deref(hp, x) = Deref(hp, y)

\* the __tuple__ property that DataClassMeta.__init__ puts on a class: the
\* fields of the class that are not internal, read from the instance when
\* the property is read
__tuple__(cs, self) ==
  [k \in DOMAIN cs[self.cls].tuple |-> GetAttr(cs, self, cs[self.cls].tuple[k])]

TupleEq(hp, s, t) == Len(s) = Len(t) /\ \A k \in DOMAIN s : ValueEq(hp, s[k], t[k])

__eq___mutant(cs, hp, self, other) ==
  IsSubtype(cs, other.cls, self.cls) /\ TupleEq(hp, __tuple__(cs, self), __tuple__(cs, other))

\* line 195: type(self) is type(other) and self.__tuple__ == other.__tuple__
__eq__(cs, hp, self, other) ==
  self.cls = other.cls /\ TupleEq(hp, __tuple__(cs, self), __tuple__(cs, other))

\* insts[i] == insts[j]: the __eq__ the type resolves, or identity without one
Equals(cs, hp, xs, i, j) ==
  IF Present(TypeLookup(cs, xs[i].cls, "__eq__")) THEN __eq__(cs, hp, xs[i], xs[j]) ELSE i = j

\* s < t on two tuples: the first place where they differ decides, and a
\* tuple that is the beginning of a longer one is less than it
RECURSIVE TupleLess(_, _, _)
TupleLess(hp, s, t) ==
  IF t = <<>> THEN FALSE
  ELSE IF s = <<>> THEN TRUE
  ELSE IF ValueEq(hp, Head(s), Head(t)) THEN TupleLess(hp, Tail(s), Tail(t))
  ELSE Deref(hp, Head(s)) < Deref(hp, Head(t))

\* lines 198-201: "True", "False" or "NotImplemented"
__lt__(cs, hp, self, other) ==
  IF IsSubtype(cs, other.cls, self.cls)
  THEN IF TupleLess(hp, __tuple__(cs, self), __tuple__(cs, other)) THEN "True" ELSE "False"
  ELSE "NotImplemented"

\* lines 204-205: the values that iter(self) yields
__iter__(cs, self) == __tuple__(cs, self)

\* the fields `wrapper` marks in the hints of `annotations`, in order
Hinted(wrapper, annotations) == Keys(SelectSeq(annotations, LAMBDA e : is_hinted(wrapper, e)))

hash_of_mutant(fn, cs, self) ==
  [type |-> self.cls,
   of |-> IF Hinted("Hashed", fn.ann) = <<>> THEN __tuple__(cs, self)
          ELSE [k \in DOMAIN Hinted("Hashed", fn.ann) |-> GetAttr(cs, self, Hinted("Hashed", fn.ann)[k])]]

\* lines 170-172: what the generated __hash__ fn hashes for self, the tuple
\* of self.__class__ and the fields whose hint is wrapped in Hashed
hash_of(fn, cs, self) ==
  [type |-> self.cls,
   of |-> [k \in DOMAIN Hinted("Hashed", fn.ann) |-> GetAttr(cs, self, Hinted("Hashed", fn.ann)[k])]]

\* lines 208-212: the text of repr(xs[i]) as a list of tokens, or the
\* RecursionError that ends it.  `active` are the instances whose __repr__
\* is running: a {v!r} that comes back to one of them repeats a call that is
\* still on the stack, with nothing changed, and so recurses without bound
RECURSIVE __repr__(_, _, _, _), ReprOf(_, _, _, _), ReprValues(_, _, _, _, _)
__repr__(cs, xs, i, active) ==
  LET show_internals == ~cs[xs[i].cls].opts["hide_internals"]
      field_values == ReprValues(cs, xs, i, active, Keys(fields(cs[xs[i].cls].ann, show_internals)))
  IN [err |-> field_values.err,
      text |-> <<ToString(xs[i].cls), "(">> \o field_values.text \o <<")">>]

\* {v!r} for an instance: the __repr__ its type resolves (a user's own, or
\* object's, prints no field)
ReprOf(cs, xs, j, active) ==
  IF TypeLookup(cs, xs[j].cls, "__repr__") # GenericFn("__repr__")
  THEN [err |-> "", text |-> <<ToString(xs[j].cls), "object">>]
  ELSE IF j \in active THEN [err |-> "RecursionError", text |-> <<>>]
  ELSE __repr__(cs, xs, j, active \cup {j})

\* line 210-211: `f=...` if v is self else `f={v!r}`, for the fields `names`
ReprValues(cs, xs, i, active, names) ==
  IF names = <<>> THEN [err |-> "", text |-> <<>>]
  ELSE LET f == Head(names)
           v == GetAttr(cs, xs[i], f)
           one == IF IsObj(v) /\ v.v = i THEN [err |-> "", text |-> <<"...">>]
                  ELSE IF IsObj(v) THEN ReprOf(cs, xs, v.v, active)
                  ELSE [err |-> "", text |-> <<ToString(v.v)>>]
           rest == ReprValues(cs, xs, i, active, Tail(names))
       IN IF one.err # "" THEN one
          ELSE IF rest.err # "" THEN rest
          ELSE [err |-> "", text |-> <<f, "=">> \o one.text \o rest.text]

-----------------------------------------------------------------------------
(* The generated __init__ (generate_init, lines 136-164) at work.          *)

Ev(e, n, f, pos, kw) == [e |-> e, n |-> n, f |-> f, pos |-> pos, kw |-> kw]

SetEv(n) == Ev("set", n, NoFn, <<>>, EmptyMap)

\* how a call binds its arguments to `def __init__(self, {parameters})`
Bind(fn, pos, kw) ==
  LET params == parameters(fn)
      np == IF Len(pos) < Len(params) THEN Len(pos) ELSE Len(params)
      byPos == {params[i] : i \in 1..np}
      named == DOMAIN kw \cap Range(params)
      varargs == fn.user_init
      varkw == fn.user_init \/ fn.gen_kwargs
  IN [ok |-> /\ Len(pos) <= Len(params) \/ varargs
             /\ named \cap byPos = {}
             /\ DOMAIN kw \subseteq Range(params) \/ varkw
             /\ \A n \in Range(params) : n \in byPos \cup named \cup DOMAIN fn.defs,
      vals |-> [n \in Range(params) |->
                  IF n \in byPos THEN pos[CHOOSE i \in 1..np : params[i] = n]
                  ELSE IF n \in named THEN kw[n]
                  ELSE IF n \in DOMAIN fn.defs THEN fn.defs[n] ELSE Atom(0)],
      args |-> SubSeq(pos, np + 1, Len(pos)),
      kwargs |-> Restrict(kw, DOMAIN kw \ Range(params))]

NeedsCopy_mutant(defaults, n, val) == FALSE

\* line 152: `n.copy() if n is default_n else n`, for a default that has a copy
NeedsCopy(defaults, n, val) ==
  n \in DOMAIN defaults /\ hasattr_copy(defaults[n]) /\ val = defaults[n]

\* the assignments of lines 156-157, from the i-th field on
RECURSIVE Assign(_, _, _, _, _)
Assign(cs, fn, st, vals, i) ==
  IF i > Len(fn.ann) \/ st.err # "" THEN st
  ELSE LET n == fn.ann[i].n
           copies == NeedsCopy(fn.defs, n, vals[n])
           heap1 == IF copies THEN Append(st.heap, st.heap[vals[n].v]) ELSE st.heap
           r == IF copies THEN Ref(Len(heap1)) ELSE vals[n]
           w == IF fn.frozen THEN ObjectSetAttr(cs, st.inst, n, r)
                ELSE SetAttr(cs, st.inst, n, r)
       IN Assign(cs, fn,
                 [inst |-> w.inst, heap |-> heap1, err |-> w.err,
                  trace |-> IF w.err = "" THEN Append(st.trace, SetEv(n)) ELSE st.trace],
                 vals, i + 1)

\* a call of the generated function fn on st.inst.  A __post_init__ that is
\* itself a generated __init__ runs in turn; `depth` counts the frames that
\* repeat the call they were made from, which the interpreter stops with a
\* RecursionError (after MaxDepth of them here)
RECURSIVE RunInit(_, _, _, _, _, _)
RunInit(cs, fn, st, pos, kw, depth) ==
  LET b == Bind(fn, pos, kw)
  IN IF ~b.ok THEN [st EXCEPT !.err = "TypeError"]
     ELSE LET after == Assign(cs, fn, st, b.vals, 1)
              hook == TypeLookup(cs, st.inst.cls, "__post_init__")
              called == [after EXCEPT !.trace = Append(@, Ev("hook", "", hook, b.args, b.kwargs))]
              deeper == IF hook = fn /\ b.args = pos /\ b.kwargs = kw THEN depth + 1 ELSE depth
          IN IF after.err # "" \/ ~fn.user_init THEN after
             ELSE IF ~Present(hook) THEN [after EXCEPT !.err = "AttributeError"]
             ELSE IF hook.kind # "init" THEN called
             ELSE IF deeper >= MaxDepth THEN [called EXCEPT !.err = "RecursionError"]
             ELSE RunInit(cs, hook, called, b.args, b.kwargs, deeper)

\* cls(*pos, **kw): type.__call__ makes the object and calls the __init__ the
\* type resolves; a user's own __init__ or hook is a call whose body is not modelled
CallClass(cs, hp, c, pos, kw) ==
  LET init == TypeLookup(cs, c, "__init__")
      st == [inst |-> NewInstance(c), heap |-> hp, err |-> "", trace |-> <<>>]
  IN IF init.kind = "init" THEN RunInit(cs, init, st, pos, kw, 0)
     ELSE IF Present(init) THEN [st EXCEPT !.trace = <<Ev("hook", "", init, pos, kw)>>]
     ELSE IF pos # <<>> \/ DOMAIN kw # {} THEN [st EXCEPT !.err = "TypeError"]
     ELSE st

-----------------------------------------------------------------------------
(* The state and the operations.                                           *)

Last(op, cls, inst, name, err, trace, obj, pos, kw, decls) ==
  [op |-> op, cls |-> cls, inst |-> inst, name |-> name, err |-> err,
   trace |-> trace, obj |-> obj, pos |-> pos, kw |-> kw, decls |-> decls,
   text |-> <<>>]

Init ==
  /\ classes = <<>>
  /\ heap = <<>>
  /\ insts = <<>>
  /\ last = Last("none", 0, 0, "", "", <<>>, NewInstance(0), <<>>, EmptyMap, <<>>)

\* the values a class body gives its fields: an int (11, 12, ... by class) or
\* a new empty list
RECURSIVE BodyValues(_, _, _, _)
BodyValues(decls, self, hp, i) ==
  IF i > Len(decls) THEN [cattr |-> EmptyMap, heap |-> hp]
  ELSE LET d == decls[i]
           hp1 == IF d.d = "mut" THEN Append(hp, 0) ELSE hp
           rest == BodyValues(decls, self, hp1, i + 1)
           val == IF d.d = "mut" THEN Ref(Len(hp1)) ELSE Atom(10 + self)
       IN IF d.d = "none" THEN rest
          ELSE [rest EXCEPT !.cattr = Update(@, [k \in {d.n} |-> val])]

\* the dict of a class statement's body
BodyDict(decls, hook, withF, self, cattr) ==
  [ann |-> [i \in DOMAIN decls |-> [n |-> decls[i].n, h |-> decls[i].h, t |-> self]],
   cattr |-> cattr,
   meth |-> [m \in MethodNames |->
               IF m = hook \/ (m = "f" /\ withF) THEN UserFn(m, self) ELSE NoFn],
   hasDefaults |-> FALSE, defaults |-> EmptyMap,
   hasOpts |-> FALSE, opts |-> DEFAULT_OPTIONS,
   hasSlots |-> FALSE, slots |-> {}]

\* a class creation that stores what it collected in the bases it read
AddClass_mutant(made, hp, op, from, name, kwargs, decls) ==
  /\ made.ok
  /\ classes' = Append([c \in DOMAIN classes |->
                          IF \E i \in DOMAIN made.bases : made.bases[i] = c
                          THEN [classes[c] EXCEPT !.ann = made.ann, !.defs = made.defs, !.opts = made.opts]
                          ELSE classes[c]], made)
  /\ heap' = hp
  /\ last' = Last(op, Len(classes) + 1, from, name, "", <<>>, NewInstance(0), <<>>, kwargs, decls)
  /\ UNCHANGED insts

\* a new class takes its place at the end of `classes`; the annotations,
\* defaults and options it stores are dicts made for it (lines 56-59), so no
\* class that exists is written
AddClass(made, hp, op, from, name, kwargs, decls) ==
  /\ made.ok
  /\ classes' = Append(classes, made)
  /\ heap' = hp
  /\ last' = Last(op, Len(classes) + 1, from, name, "", <<>>, NewInstance(0), <<>>, kwargs, decls)
  /\ UNCHANGED insts

DefineWith(bases, decls, hook, withF, kwargs, self, body) ==
  AddClass(DataClassMeta(classes, self, bases, BodyDict(decls, hook, withF, self, body.cattr), kwargs),
           body.heap, "define", 0, IF hook = "" /\ withF THEN "f" ELSE hook, kwargs, decls)

\* `class X(*bases, **kwargs): body` below record types (the metaclass is
\* inherited), or `@dataclass(**kwargs) class X: body` when there is no base
\* (dataclass, decorator.py lines 13-26, applies the metaclass to vars(X))
DefineClass(bases, decls, hook, withF, kwargs) ==
  DefineWith(bases, decls, hook, withF, kwargs, Len(classes) + 1,
             BodyValues(decls, Len(classes) + 1, heap, 1))

\* dataclass(cls, **options) on a class that is a record type already:
\* apply_metaclass builds a new class from vars(cls) and cls.__bases__
ApplyDecorator(c, options) ==
  AddClass(DataClassMeta(classes, Len(classes) + 1, classes[c].bases, VarsOf(classes[c]), options),
           heap, "decorate", c, "", options, <<>>)

\* cls(*pos, **kw) whose result is dropped at once
Call(c, pos, kw) ==
  LET r == CallClass(classes, heap, c, pos, kw)
  IN /\ last' = Last("call", c, 0, "", r.err, r.trace, r.inst, pos, kw, <<>>)
     /\ UNCHANGED <<classes, heap, insts>>

\* x = cls(*pos, **kw): the instance is kept when the call returns
Construct(c, pos, kw) ==
  LET r == CallClass(classes, heap, c, pos, kw)
  IN /\ Len(insts) < MaxInsts
     /\ IF r.err = ""
        THEN /\ insts' = Append(insts, r.inst)
             /\ heap' = r.heap
             /\ last' = Last("construct", c, Len(insts) + 1, "", "", r.trace, r.inst, pos, kw, <<>>)
        ELSE /\ last' = Last("construct", c, 0, "", r.err, r.trace, r.inst, pos, kw, <<>>)
             /\ UNCHANGED <<heap, insts>>
     /\ UNCHANGED classes

\* x.name = value
Write(i, name, value) ==
  LET r == SetAttr(classes, insts[i], name, value)
  IN /\ insts' = [insts EXCEPT ![i] = r.inst]
     /\ last' = Last("write", insts[i].cls, i, name, r.err, <<>>, NewInstance(0), <<value>>, EmptyMap, <<>>)
     /\ UNCHANGED <<classes, heap>>

\* del x.name
Delete(i, name) ==
  LET r == DelAttr(classes, insts[i], name)
  IN /\ insts' = [insts EXCEPT ![i] = r.inst]
     /\ last' = Last("delete", insts[i].cls, i, name, r.err, <<>>, NewInstance(0), <<>>, EmptyMap, <<>>)
     /\ UNCHANGED <<classes, heap>>

\* repr(x)
Repr(i) ==
  LET r == ReprOf(classes, insts, i, {})
  IN /\ last' = [Last("repr", insts[i].cls, i, "", r.err, <<>>, NewInstance(0), <<>>, EmptyMap, <<>>)
                   EXCEPT !.text = r.text]
     /\ UNCHANGED <<classes, heap, insts>>

\* type(x).__lt__(x, y): the answer of the generic __lt__, or a TypeError
\* when the type of x resolves no __lt__
Less(i, j) ==
  LET fn == TypeLookup(classes, insts[i].cls, "__lt__")
      r == IF fn = GenericFn("__lt__")
           THEN [err |-> "", text |-> <<__lt__(classes, heap, insts[i], insts[j])>>]
           ELSE [err |-> "TypeError", text |-> <<>>]
  IN /\ last' = [Last("less", insts[i].cls, i, "", r.err, <<>>, NewInstance(0), <<Obj(j)>>, EmptyMap, <<>>)
                   EXCEPT !.text = r.text]
     /\ UNCHANGED <<classes, heap, insts>>

\* `n names = x`: a TypeError when the type of x resolves no __iter__, a
\* ValueError when iter(x) does not yield n values, else the values
Unpack(i, n) ==
  LET fn == TypeLookup(classes, insts[i].cls, "__iter__")
      vals == __iter__(classes, insts[i])
      err == IF fn # GenericFn("__iter__") THEN "TypeError"
             ELSE IF Len(vals) # n THEN "ValueError" ELSE ""
  IN /\ last' = Last("unpack", insts[i].cls, i, ToString(n), err, <<>>, NewInstance(0),
                     IF err = "" THEN vals ELSE <<>>, EmptyMap, <<>>)
     /\ UNCHANGED <<classes, heap, insts>>

\* x.name.append(...): the list the field refers to changes in place
Mutate(i, name) ==
  /\ HasAttr(classes, insts[i], name)
  /\ LET val == GetAttr(classes, insts[i], name)
     IN /\ val.ref
        /\ heap[val.v] < MaxAppend
        /\ heap' = [heap EXCEPT ![val.v] = @ + 1]
  /\ last' = Last("mutate", insts[i].cls, i, name, "", <<>>, NewInstance(0), <<>>, EmptyMap, <<>>)
  /\ UNCHANGED <<classes, insts>>

-----------------------------------------------------------------------------
(* The inputs the operations are tried on.                                 *)

Decls(names, hints, kinds) == [n : names, h : hints, d : kinds]

\* no base, one base, or two different bases in either order
BaseLists ==
  {<<>>} \cup {<<c>> : c \in DOMAIN classes}
         \cup {q \in {<<c, d>> : c \in DOMAIN classes, d \in DOMAIN classes} : q[1] # q[2]}

\* no option, or one option given at the point of use
Options(names) == {EmptyMap} \cup {[k \in {o} |-> v] : o \in names, v \in BOOLEAN}

KwVal(name) == Atom(CASE name = "a" -> 21 [] name = "b" -> 22 [] name = "_c" -> 23 [] OTHER -> 24)

\* positional arguments 1, 2, ... and keyword arguments from `names`
PosArgs(n) == {[i \in 1..k |-> Atom(i)] : k \in 0..n}

KwArgs(names) == {[n \in S |-> KwVal(n)] : S \in SUBSET names}

-----------------------------------------------------------------------------
(* Field schemas: classes that each declare one field (a, b or _c without  *)
(* a default, or b with an int default) below any bases; calls of the      *)
(* newest class with up to two positional arguments, or with one and the   *)
(* keyword b.                                                              *)

FieldBodies ==
  {<<d>> : d \in Decls(FieldNames, {{}}, {"none"}) \cup Decls({"b"}, {{}}, {"atom"})}

NextFields ==
  \/ \E bases \in BaseLists, decls \in FieldBodies :
       Len(classes) < MaxClasses /\ DefineClass(bases, decls, "", FALSE, EmptyMap)
  \/ \E pos \in PosArgs(2) : classes # <<>> /\ Call(Len(classes), pos, EmptyMap)
  \/ classes # <<>> /\ Call(Len(classes), <<Atom(1)>>, [n \in {"b"} |-> KwVal(n)])

SpecFields == Init /\ [][NextFields]_vars

\* the place of `name` in a list of names
PlaceOf(names, name) == CHOOSE i \in DOMAIN names : names[i] = name

\* the class the last operation made
NewClass == classes[last.cls]

\* C1, the signature: the parameters of every generated __init__ are the
\* merged fields, no field with a default comes before one without, and two
\* fields that both have or both lack a default keep their merged order.
C1_Signature(c) ==
  LET p == parameters(classes[c].meth["__init__"])
  IN /\ Len(p) = Len(classes[c].ann)
     /\ Range(p) = KeySet(classes[c].ann)
     /\ \A i, j \in DOMAIN p :
          i < j =>
            /\ ~(p[i] \in DOMAIN classes[c].defs /\ p[j] \notin DOMAIN classes[c].defs)
            /\ (p[i] \in DOMAIN classes[c].defs <=> p[j] \in DOMAIN classes[c].defs)
                 => PlaceOf(Keys(classes[c].ann), p[i]) < PlaceOf(Keys(classes[c].ann), p[j])

\* C1, the binding: a call that returns has put its k-th positional argument
\* in the k-th field of that signature, each keyword argument in the field it
\* names, and the default in every other field.
C1_Binding ==
  LET p == parameters(classes[last.cls].meth["__init__"])
  IN \A k \in DOMAIN p :
       /\ HasAttr(classes, last.obj, p[k])
       /\ GetAttr(classes, last.obj, p[k]) =
            IF k <= Len(last.pos) THEN last.pos[k]
            ELSE IF p[k] \in DOMAIN last.kw THEN last.kw[p[k]]
            ELSE classes[last.cls].defs[p[k]]

\* C1: the parameter list of the synthesized __init__ is the stable partition
\* of the merged field order (fields without a default, then fields with
\* one, each group in merged order), and a call binds its arguments by it.
C1_StablePartition ==
  /\ \A c \in DOMAIN classes :
       classes[c].meth["__init__"].kind = "init" => C1_Signature(c)
  /\ (last.op = "call" /\ last.err = "" /\ NewClass.meth["__init__"].kind = "init")
       => C1_Binding

\* fields a, b = default, _c: the signature is (a, _c, b) and the call with
\* (1, 2) has returned an object with a = 1, _c = 2 and b the default
C1_Witness ==
  /\ last.op = "call" /\ last.err = ""
  /\ Keys(NewClass.ann) = <<"a", "b", "_c">>
  /\ DOMAIN NewClass.defs = {"b"}
  /\ parameters(NewClass.meth["__init__"]) = <<"a", "_c", "b">>
  /\ last.pos = <<Atom(1), Atom(2)>> /\ last.kw = EmptyMap
  /\ last.obj.dict = [n \in {"a", "b", "_c"} |->
                        IF n = "a" THEN Atom(1) ELSE IF n = "_c" THEN Atom(2) ELSE NewClass.defs["b"]]

\* the names of `names` in the order of their first occurrence, after `seen`
RECURSIVE C2_FirstSeen(_, _)
C2_FirstSeen(seen, names) ==
  IF names = <<>> THEN seen
  ELSE C2_FirstSeen(IF Head(names) \in Range(seen) THEN seen ELSE Append(seen, Head(names)),
                    Tail(names))

\* the merged field names of the bases from the i-th on, one list after the other
RECURSIVE C2_Scan(_, _)
C2_Scan(bases, i) ==
  IF i > Len(bases) THEN <<>> ELSE Keys(classes[bases[i]].ann) \o C2_Scan(bases, i + 1)

C2_Own == [i \in DOMAIN last.decls |-> last.decls[i].n]

\* the last of the listed bases whose merged fields (or defaults) have `name`
C2_LastWith(name) ==
  LET has == {i \in DOMAIN NewClass.bases : name \in KeySet(classes[NewClass.bases[i]].ann)}
  IN IF has = {} THEN 0 ELSE NewClass.bases[CHOOSE i \in has : \A j \in has : j <= i]

C2_LastDefault(name) ==
  LET has == {i \in DOMAIN NewClass.bases : name \in DOMAIN classes[NewClass.bases[i]].defs}
  IN IF has = {} THEN 0 ELSE NewClass.bases[CHOOSE i \in has : \A j \in has : j <= i]

\* the type of a merged field is that of its last declaration
C2_Type(e) ==
  IF e.n \in Range(C2_Own)
  THEN e.t = last.cls /\ e.h = last.decls[PlaceOf(C2_Own, e.n)].h
  ELSE e = Lookup(classes[C2_LastWith(e.n)].ann, e.n)

\* the default of a merged field is the last one given to it
C2_Default(n) ==
  IF n \in Range(C2_Own) /\ last.decls[PlaceOf(C2_Own, n)].d # "none"
  THEN n \in DOMAIN NewClass.defs /\ NewClass.defs[n] = NewClass.cattr[n]
                                  /\ NewClass.cattr[n] = Atom(10 + last.cls)
  ELSE IF C2_LastDefault(n) = 0 THEN n \notin DOMAIN NewClass.defs
  ELSE n \in DOMAIN NewClass.defs /\ NewClass.defs[n] = classes[C2_LastDefault(n)].defs[n]

\* C2: the merged field list of a new record type has each field at the
\* place of its first introduction, scanning the merged lists of its bases in
\* their listed order and then its own declarations; a redeclaration leaves
\* the field where it is and gives it the new type and the new default.
C2_FirstIntroduction ==
  last.op = "define" =>
    /\ Keys(NewClass.ann) = C2_FirstSeen(<<>>, C2_Scan(NewClass.bases, 1) \o C2_Own)
    /\ \A i \in DOMAIN NewClass.ann : C2_Type(NewClass.ann[i]) /\ C2_Default(NewClass.ann[i].n)

\* two bases that introduce b and a, and a class below them that declares b
\* again with a default: the order is b, a and b has the new type and default
C2_Witness ==
  /\ last.op = "define" /\ last.cls = 3
  /\ NewClass.bases = <<1, 2>>
  /\ Keys(classes[1].ann) = <<"b">> /\ Keys(classes[2].ann) = <<"a">>
  /\ C2_Own = <<"b">>
  /\ Keys(NewClass.ann) = <<"b", "a">>
  /\ NewClass.ann[1].t = 3
  /\ "b" \notin DOMAIN classes[1].defs
  /\ "b" \in DOMAIN NewClass.defs /\ NewClass.defs["b"] = Atom(13)

-----------------------------------------------------------------------------
(* Options: classes that declare one field each (the first a, the next b   *)
(* with a default, the next _c with a default, and so on) below any bases, *)
(* with slots or frozen given or not; the decorator applied again with an  *)
(* option or none; calls of the newest class.                              *)

OptionChoices == Options({"slots"}) \cup {[k \in {"frozen"} |-> TRUE]}

\* the body of the n-th class
OptionBody(n) ==
  <<[n |-> <<"a", "b", "_c">>[((n - 1) % 3) + 1], h |-> {},
     d |-> IF n % 3 = 1 THEN "none" ELSE "atom"]>>

NextOptions ==
  \/ \E bases \in BaseLists, kwargs \in OptionChoices :
       Len(classes) < MaxClasses /\ DefineClass(bases, OptionBody(Len(classes) + 1), "", FALSE, kwargs)
  \/ \E c \in DOMAIN classes, options \in OptionChoices :
       Len(classes) < MaxClasses /\ ApplyDecorator(c, options)
  \/ \E pos \in PosArgs(1) : classes # <<>> /\ Call(Len(classes), pos, EmptyMap)

SpecOptions == Init /\ [][NextOptions]_vars

\* the options a new class finds before those given at its point of use: its
\* own when the decorator is applied to it again, else those of the base
\* listed last (the closest in the order of the scan), else the default table
C3_Carried ==
  IF last.op = "decorate" THEN classes[last.inst].opts
  ELSE IF NewClass.bases # <<>> THEN classes[NewClass.bases[Len(NewClass.bases)]].opts
  ELSE DEFAULT_OPTIONS

\* C3: every option of a record type has the value passed at the point of
\* use if one was passed, otherwise the value carried by the nearest ancestor
\* (of several bases, the one listed last), otherwise that of the default table.
C3_OptionPrecedence ==
  last.op \in {"define", "decorate"} =>
    \A o \in OptionNames :
      NewClass.opts[o] = IF o \in DOMAIN last.kw THEN last.kw[o] ELSE C3_Carried[o]

\* two bases whose option sets differ (slots and frozen) and a class below
\* them that passes slots = FALSE itself: it is frozen, and not slotted
C3_Witness ==
  /\ last.op = "define" /\ last.cls = 3
  /\ NewClass.bases = <<1, 2>>
  /\ classes[1].opts["slots"] /\ ~classes[1].opts["frozen"]
  /\ classes[2].opts["frozen"] /\ ~classes[2].opts["slots"]
  /\ last.kw = [k \in {"slots"} |-> FALSE]
  /\ NewClass.opts["frozen"] /\ ~NewClass.opts["slots"]

\* C10, first half: an instance of a class whose slots option is true has no
\* __dict__
C10_SlottedHasNoDict ==
  \A c \in DOMAIN classes : classes[c].opts["slots"] => ~classes[c].hasDict

\* C10, second half: no field of a class whose slots option is false is a
\* slot, and no instance of it keeps a value in one
C10_UnslottedHasNoSlot ==
  /\ \A c \in DOMAIN classes :
       ~classes[c].opts["slots"] =>
         \A n \in KeySet(classes[c].ann) : TypeAttr(classes, c, n) # "slot"
  /\ (last.op = "call" /\ ~NewClass.opts["slots"]) => last.obj.slot = EmptyMap

\* C10: a record type whose effective slots option is true has no instance
\* with a __dict__, and a record type whose effective slots option is false
\* (one that passes slots = FALSE below slotted record types too) has none of
\* its fields in a slot.
C10_Layout == C10_SlottedHasNoDict /\ C10_UnslottedHasNoSlot

\* the slots that the classes above c in its linearization define
C11_AncestorSlots(c) ==
  UNION {classes[d].slots : d \in Range(classes[c].mro) \ {c}}

\* the __slots__ of a slotted class are its merged fields without the slots
\* of its ancestors
C11_OwnSlots ==
  \A c \in DOMAIN classes :
    classes[c].opts["slots"] => classes[c].slots = KeySet(classes[c].ann) \ C11_AncestorSlots(c)

\* every merged field of a slotted class is a slot of exactly one class of
\* its linearization
C11_OneSlot ==
  \A c \in DOMAIN classes :
    classes[c].opts["slots"] =>
      \A n \in KeySet(classes[c].ann) :
        Cardinality({d \in Range(classes[c].mro) : n \in classes[d].slots}) = 1

\* a call of a slotted class with arguments that fit its parameters succeeds
C11_Constructs ==
  (/\ last.op = "call" /\ NewClass.opts["slots"]
   /\ NewClass.meth["__init__"].kind = "init"
   /\ Len(arguments(NewClass.ann, NewClass.defs)) <= Len(last.pos)
   /\ Len(last.pos) <= Len(NewClass.ann))
    => last.err = ""

\* C11: the __slots__ of a record type created with slots enabled (one made
\* by applying the decorator with slots = TRUE to a class below a slotted
\* record type too) are its merged fields minus the slots its ancestors
\* define, so that every merged field is backed by exactly one slot of the
\* hierarchy and constructing an instance succeeds.
C11_Slots == C11_OwnSlots /\ C11_OneSlot /\ C11_Constructs

\* Base{a} with slots, Derived(Base){b} made by the class statement and then
\* by the decorator with slots = TRUE: its __slots__ are empty, and the call
\* that gives both fields fails on b
C11_Witness ==
  /\ last.op = "call" /\ last.err = "AttributeError"
  /\ classes[last.cls].bases # <<>>
  /\ classes[classes[last.cls].bases[1]].slots = {"a"}
  /\ Keys(NewClass.ann) = <<"a", "b">>
  /\ NewClass.opts["slots"] /\ NewClass.slots = {}
  /\ ~NewClass.hasDict
  /\ last.pos = <<Atom(1)>>

-----------------------------------------------------------------------------
(* Hooks: classes that declare a, or b with a default, or nothing, and a   *)
(* __post_init__ or an __init__ of their own or neither, below any bases;  *)
(* the decorator applied again; calls of the newest class with up to three *)
(* positional arguments, with or without the keyword x.                    *)

HookChoices == {"", "__post_init__", "__init__"}

HookBodies == {<<>>, <<[n |-> "a", h |-> {}, d |-> "none"]>>, <<[n |-> "b", h |-> {}, d |-> "atom"]>>}

NextHooks ==
  \/ \E bases \in BaseLists, decls \in HookBodies, hook \in HookChoices :
       Len(classes) < MaxClasses /\ DefineClass(bases, decls, hook, FALSE, EmptyMap)
  \/ \E c \in DOMAIN classes :
       Len(classes) < MaxClasses /\ ApplyDecorator(c, EmptyMap)
  \/ \E pos \in PosArgs(3), kw \in KwArgs({"x"}) :
       classes # <<>> /\ Call(Len(classes), pos, kw)

SpecHooks == Init /\ [][NextHooks]_vars

\* the field assignments and the hook invocations of the last call, in order
C4_Sets == SelectSeq(last.trace, LAMBDA e : e.e = "set")

C4_Hooks == SelectSeq(last.trace, LAMBDA e : e.e = "hook")

\* the last operation ran the body of a generated __init__
C4_InitRan ==
  last.op = "call" /\ last.trace # <<>> /\ NewClass.meth["__init__"].kind = "init"

\* what the caller passed beyond the field parameters
C4_ExtraPos == SubSeq(last.pos, Len(NewClass.ann) + 1, Len(last.pos))

C4_ExtraKw == Restrict(last.kw, DOMAIN last.kw \ KeySet(NewClass.ann))

C4_Order ==
  /\ last.trace = C4_Sets \o C4_Hooks
  /\ [i \in DOMAIN C4_Sets |-> C4_Sets[i].n] = Keys(NewClass.ann)
  /\ Len(C4_Hooks) = IF Present(TypeLookup(classes, last.cls, "__post_init__")) THEN 1 ELSE 0
  /\ \A i \in DOMAIN C4_Hooks :
       C4_Hooks[i].pos = C4_ExtraPos /\ C4_Hooks[i].kw = C4_ExtraKw

\* C4: a call of a synthesized __init__ assigns each merged field exactly
\* once, in merged order, and only then invokes the post-construction hook,
\* if there is one, exactly once, with the positional and keyword arguments
\* that no field parameter consumed.
C4_AssignThenHook == C4_InitRan => C4_Order

\* the same for the classes whose hook is a function of the user's, as it is
\* for every class that the decorator was applied to once only
C4_AssignThenUserHook ==
  (C4_InitRan /\ TypeLookup(classes, last.cls, "__post_init__").kind # "init") => C4_Order

\* a class with the field b = default and a __post_init__, the decorator
\* applied to it again, and a call of the result: b is assigned again and
\* again by the __init__ of the first application, until the stack is full
C4_Witness ==
  /\ last.op = "call" /\ last.err = "RecursionError"
  /\ Keys(NewClass.ann) = <<"b">>
  /\ Len(C4_Sets) > 1
  /\ TypeLookup(classes, last.cls, "__post_init__").kind = "init"

\* C5: a record type that declares a __post_init__ of its own, below an
\* ancestor that declares one too or not, has its own hook attached, and its
\* constructor invokes the hook attached to it.
C5_OwnHook ==
  /\ (last.op = "define" /\ last.name = "__post_init__")
       => NewClass.meth["__post_init__"] = UserFn("__post_init__", last.cls)
  /\ C4_InitRan => \A i \in DOMAIN C4_Hooks : C4_Hooks[i].f = NewClass.meth["__post_init__"]

\* a class with a field and a __post_init__, and a class below it that
\* declares a __post_init__ of its own: the hook attached to the second is
\* the function the first declared
C5_Witness ==
  /\ last.op = "define" /\ last.name = "__post_init__" /\ last.cls = 2
  /\ NewClass.bases = <<1>>
  /\ classes[1].meth["__post_init__"] = UserFn("__post_init__", 1)
  /\ NewClass.meth["__init__"].kind = "init"
  /\ NewClass.meth["__post_init__"] = UserFn("__post_init__", 1)

\* the functions that generate_init and generate_hash make
C17_Generated(fn) == fn.kind \in {"init", "hash"}

\* C17: applying the decorator to a class that the metaclass has processed
\* once gives a fresh function set: every generated member of the resulting
\* type is made by this application, none made by the earlier one is kept
\* or reused in any role, and a __post_init__ that is present afterwards is
\* the user's hook.
C17_FreshFunctions ==
  last.op = "decorate" =>
    /\ \A m \in MethodNames :
         C17_Generated(NewClass.meth[m]) =>
           (NewClass.meth[m].by = last.cls /\ NewClass.meth[m].name = m)
    /\ Present(NewClass.meth["__post_init__"]) => NewClass.meth["__post_init__"].kind = "user"

\* the part about __init__ alone: the __init__ of the resulting type is made
\* by this application
C17_FreshInit ==
  last.op = "decorate" =>
    (C17_Generated(NewClass.meth["__init__"]) => NewClass.meth["__init__"].by = last.cls)

\* a class with a field and a __post_init__, and the decorator applied to
\* it again: the __post_init__ of the result is the __init__ that was
\* generated for the class the first time
C17_Witness ==
  /\ last.op = "decorate"
  /\ classes[last.inst].meth["__post_init__"] = UserFn("__post_init__", last.inst)
  /\ classes[last.inst].meth["__init__"].kind = "init"
  /\ NewClass.meth["__post_init__"] = classes[last.inst].meth["__init__"]
  /\ NewClass.meth["__init__"].by = last.cls

\* the decorator applied again to a class with a field and no hook: the
\* __hash__ of the result is the one generated the first time
C17_WitnessHash ==
  /\ last.op = "decorate"
  /\ ~Present(NewClass.meth["__post_init__"])
  /\ NewClass.meth["__hash__"].kind = "hash"
  /\ NewClass.meth["__hash__"] = classes[last.inst].meth["__hash__"]
  /\ NewClass.meth["__hash__"].by = last.inst

-----------------------------------------------------------------------------
(* Defaults: classes that declare one field each with a new list as the    *)
(* default (the first a, the next b, and so on) below any bases, slotted   *)
(* or not; instances of the newest class made with the fields left out or  *)
(* given; appends to the list that the field a of an instance holds.       *)

\* the body of the n-th class
MutableBody(n) == <<[n |-> IF n % 2 = 1 THEN "a" ELSE "b", h |-> {}, d |-> "mut"]>>

NextDefaults ==
  \/ \E bases \in BaseLists, kwargs \in {EmptyMap, [k \in {"slots"} |-> TRUE]} :
       /\ Len(classes) < MaxInstanceClasses
       /\ DefineClass(bases, MutableBody(Len(classes) + 1), "", FALSE, kwargs)
  \/ \E pos \in PosArgs(1) : classes # <<>> /\ Construct(Len(classes), pos, EmptyMap)
  \/ \E i \in DOMAIN insts : Mutate(i, "a")

SpecDefaults == Init /\ [][NextDefaults]_vars

\* the values that instance i holds are after the step what they were
C6_Unchanged(i) ==
  \A n \in {"a", "b"} :
    HasAttr(classes, insts[i], n) =>
      Deref(heap', GetAttr(classes, insts[i], n)) = Deref(heap, GetAttr(classes, insts[i], n))

\* the defaults stored on the types are after the step what they were
C6_DefaultsUnchanged ==
  \A c \in DOMAIN classes :
    /\ \A n \in DOMAIN classes[c].defs :
         Deref(heap', classes[c].defs[n]) = Deref(heap, classes[c].defs[n])
    /\ \A n \in DOMAIN classes[c].cattr :
         Deref(heap', classes[c].cattr[n]) = Deref(heap, classes[c].cattr[n])

\* C6: with defaults that have a copy method, after any constructions that
\* leave the field out, a mutation of the value one instance holds changes
\* neither the value another instance holds nor the default stored on a type.
C6_Isolation ==
  [][last'.op = "mutate" =>
       /\ \A j \in DOMAIN insts \ {last'.inst} : C6_Unchanged(j)
       /\ C6_DefaultsUnchanged]_vars

\* two instances of a class made with the field a left out; the list of the
\* first has been appended to, that of the second and the default have not
C6_Witness ==
  /\ last.op = "mutate" /\ last.inst = 1 /\ last.name = "a"
  /\ Len(insts) = 2 /\ insts[1].cls = insts[2].cls
  /\ "a" \in DOMAIN classes[insts[1].cls].defs
  /\ HasAttr(classes, insts[2], "a")
  /\ GetAttr(classes, insts[1], "a").ref /\ GetAttr(classes, insts[2], "a").ref
  /\ Deref(heap, GetAttr(classes, insts[1], "a")) = 1
  /\ Deref(heap, GetAttr(classes, insts[2], "a")) = 0
  /\ Deref(heap, classes[insts[1].cls].defs["a"]) = 0

-----------------------------------------------------------------------------
(* Instances: classes that declare one field each with an int default     *)
(* (the first a or a: Hashed, the next _c or b: Hashed, the next           *)
(* b: Internal, and so on) below any bases; instances of any class made   *)
(* from the defaults; writes of 21 to their fields.                        *)

\* the bodies the n-th class may have
InstanceBodies(n) ==
  CASE n % 3 = 1 -> {<<[n |-> "a", h |-> hh, d |-> "atom"]>> : hh \in {{}, {"Hashed"}}}
    [] n % 3 = 2 -> {<<[n |-> "_c", h |-> {}, d |-> "atom"]>>, <<[n |-> "b", h |-> {"Hashed"}, d |-> "atom"]>>}
    [] OTHER -> {<<[n |-> "b", h |-> {"Internal"}, d |-> "atom"]>>}

NextInstances ==
  \/ \E bases \in BaseLists, decls \in InstanceBodies(Len(classes) + 1) :
       /\ Len(classes) < MaxInstanceClasses
       /\ DefineClass(bases, decls, "", FALSE, EmptyMap)
  \/ \E c \in DOMAIN classes : Construct(c, <<>>, EmptyMap)
  \/ \E i \in DOMAIN insts, name \in FieldNames :
       name \in KeySet(classes[insts[i].cls].ann) /\ Write(i, name, Atom(21))

SpecInstances == Init /\ [][NextInstances]_vars

\* the fields of class c that are not internal: no leading underscore in the
\* name, no Internal in the hint
C7_Public(c) == {e.n : e \in {x \in Range(classes[c].ann) : ~IsInternal(x)}}

C7_SameFields(i, j) ==
  \A n \in C7_Public(insts[i].cls) :
    ValueEq(heap, GetAttr(classes, insts[i], n), GetAttr(classes, insts[j], n))

C8_Values(i, names) == [k \in DOMAIN names |-> GetAttr(classes, insts[i], names[k])]

\* the generated __hash__ of instance i hashes its type and the values of
\* the fields `names`
C8_HashesOver(i, names) ==
  hash_of(TypeLookup(classes, insts[i].cls, "__hash__"), classes, insts[i])
    = [type |-> insts[i].cls, of |-> C8_Values(i, names)]

C8_Generated(i) == TypeLookup(classes, insts[i].cls, "__hash__").kind = "hash"

\* C8 as stated: the generated __hash__ is computed from the type and, when
\* no field of the merged schema carries Hashed, from all the non-internal
\* fields; when a field carries Hashed, from exactly the Hashed fields.
C8_HashFields ==
  \A i \in DOMAIN insts :
    C8_Generated(i) =>
      C8_HashesOver(i, IF Hinted("Hashed", classes[insts[i].cls].ann) = <<>>
                       THEN Keys(fields(classes[insts[i].cls].ann, FALSE))
                       ELSE Hinted("Hashed", classes[insts[i].cls].ann))

\* C8, amended: the generated __hash__ is computed from the type and from
\* exactly the fields of the merged schema that carry Hashed; when none
\* does, from the type alone, so that all instances of a type hash alike.
C8_HashedFieldsOnly ==
  \A i \in DOMAIN insts :
    C8_Generated(i) => C8_HashesOver(i, Hinted("Hashed", classes[insts[i].cls].ann))

\* two instances of a class with the field a, not Hashed, that differ in a:
\* what their __hash__ hashes is the same, the type alone
C8_Witness ==
  /\ Len(insts) = 2 /\ insts[1].cls = insts[2].cls
  /\ C8_Generated(1)
  /\ "a" \in C7_Public(insts[1].cls)
  /\ Hinted("Hashed", classes[insts[1].cls].ann) = <<>>
  /\ ~ValueEq(heap, GetAttr(classes, insts[1], "a"), GetAttr(classes, insts[2], "a"))
  /\ hash_of(TypeLookup(classes, insts[1].cls, "__hash__"), classes, insts[1])
       = hash_of(TypeLookup(classes, insts[2].cls, "__hash__"), classes, insts[2])

\* an instance of a class with a: Hashed and a field that is not Hashed: its
\* __hash__ hashes the type and a
C8_WitnessHashed ==
  /\ insts # <<>>
  /\ C8_Generated(1)
  /\ Hinted("Hashed", classes[insts[1].cls].ann) = <<"a">>
  /\ Len(classes[insts[1].cls].ann) > 1
  /\ hash_of(TypeLookup(classes, insts[1].cls, "__hash__"), classes, insts[1]).of
       = <<GetAttr(classes, insts[1], "a")>>

-----------------------------------------------------------------------------
(* Frozen classes: classes that declare one field each (the first a, the  *)
(* next b with a default, and so on) below any bases, frozen (slotted or   *)
(* not) or not; instances of the newest class; writes and deletes, on the  *)
(* instances of the frozen classes, of the fields a and b and of the       *)
(* unknown name zz.                                                        *)

FrozenChoices ==
  {EmptyMap, [k \in {"frozen"} |-> TRUE], [k \in {"frozen", "slots"} |-> TRUE]}

\* the body of the n-th class
FrozenBody(n) ==
  <<[n |-> IF n % 2 = 1 THEN "a" ELSE "b", h |-> {}, d |-> IF n % 2 = 1 THEN "none" ELSE "atom"]>>

FrozenInstances == {i \in DOMAIN insts : classes[insts[i].cls].opts["frozen"]}

NextFrozen ==
  \/ \E bases \in BaseLists, kwargs \in FrozenChoices :
       /\ Len(classes) < MaxInstanceClasses
       /\ DefineClass(bases, FrozenBody(Len(classes) + 1), "", FALSE, kwargs)
  \/ \E pos \in PosArgs(1) : classes # <<>> /\ Construct(Len(classes), pos, EmptyMap)
  \/ \E i \in FrozenInstances, name \in {"a", "b", "zz"} : Write(i, name, Atom(21))
  \/ \E i \in FrozenInstances, name \in {"a", "b", "zz"} : Delete(i, name)

SpecFrozen == Init /\ [][NextFrozen]_vars

\* the step constructs an instance of a frozen class from arguments that
\* fit the parameters of its __init__
C9_Constructs ==
  /\ last'.op = "construct"
  /\ classes[last'.cls].opts["frozen"]
  /\ Len(last'.pos) <= Len(classes[last'.cls].ann)
  /\ \A k \in DOMAIN classes[last'.cls].ann :
       k <= Len(last'.pos) \/ classes[last'.cls].ann[k].n \in DOMAIN classes[last'.cls].defs

\* the step writes or deletes an attribute of an instance of a frozen class
C9_Touches ==
  last'.op \in {"write", "delete"} /\ classes[last'.cls].opts["frozen"]

\* C9: the construction of an instance of a frozen record type succeeds and
\* assigns every field; after it every write and every delete of an
\* attribute of the instance, whatever the name (a field that is set, a name
\* that is not set or not known), fails and leaves every field as it was.
C9_Frozen ==
  [][/\ C9_Constructs =>
          /\ last'.err = "" /\ Len(insts') = Len(insts) + 1
          /\ \A n \in KeySet(classes[last'.cls].ann) : HasAttr(classes, insts'[Len(insts')], n)
     /\ C9_Touches => (last'.err = "AttributeError" /\ insts' = insts)]_vars

\* a write to a field of an instance of a frozen class has failed
C9_Witness ==
  /\ last.op = "write" /\ last.name = "a" /\ last.err = "AttributeError"
  /\ classes[last.cls].opts["frozen"]
  /\ HasAttr(classes, insts[last.inst], "a")
  /\ GetAttr(classes, insts[last.inst], "a") = Atom(1)

-----------------------------------------------------------------------------
(* Representation: classes that declare one field each with an int default *)
(* (the first a, the next _c, and so on) below any bases, with             *)
(* hide_internals or repr turned off or not; instances of any class made   *)
(* from the defaults; writes that make a field hold an instance; repr of   *)
(* an instance.                                                            *)

ReprChoices ==
  {EmptyMap, [k \in {"hide_internals"} |-> FALSE], [k \in {"repr"} |-> FALSE]}

\* the body of the n-th class
ReprBody(n) == <<[n |-> IF n % 2 = 1 THEN "a" ELSE "_c", h |-> {}, d |-> "atom"]>>

NextRepr ==
  \/ \E bases \in BaseLists, kwargs \in ReprChoices :
       /\ Len(classes) < MaxInstanceClasses
       /\ DefineClass(bases, ReprBody(Len(classes) + 1), "", FALSE, kwargs)
  \/ \E c \in DOMAIN classes : Construct(c, <<>>, EmptyMap)
  \/ \E i \in DOMAIN insts, j \in DOMAIN insts, name \in {"a", "_c"} :
       name \in KeySet(classes[insts[i].cls].ann) /\ Write(i, name, Obj(j))
  \/ \E i \in DOMAIN insts : Repr(i)

SpecRepr == Init /\ [][NextRepr]_vars

\* the fields that the generated __repr__ of instance i shows
C12_Shown(i) ==
  Keys(fields(classes[insts[i].cls].ann, ~classes[insts[i].cls].opts["hide_internals"]))

\* instance i has the generated __repr__
C12_Generated(i) == TypeLookup(classes, insts[i].cls, "__repr__") = GenericFn("__repr__")

\* the field `name` is rendered as `name=...` in the text
C12_Ellipsis(text, name) ==
  \E k \in DOMAIN text :
    k + 2 <= Len(text) /\ text[k] = name /\ text[k + 1] = "=" /\ text[k + 2] = "..."

\* C12: the generated __repr__ terminates on every instance graph, one with
\* a cycle too: a field that holds the instance being printed is rendered as
\* `...`, and a two-hop cycle (x holds y, y holds x) terminates as well.
C12_ReprTerminates ==
  (last.op = "repr" /\ C12_Generated(last.inst)) =>
    /\ last.err = ""
    /\ \A n \in Range(C12_Shown(last.inst)) :
         GetAttr(classes, insts[last.inst], n) = Obj(last.inst) => C12_Ellipsis(last.text, n)

\* the direct case alone: when every instance that a shown field of the
\* printed instance holds is the instance itself, repr returns and renders
\* those fields as `...`
C12_DirectReference ==
  (/\ last.op = "repr" /\ C12_Generated(last.inst)
   /\ \A n \in Range(C12_Shown(last.inst)) :
        IsObj(GetAttr(classes, insts[last.inst], n))
          => GetAttr(classes, insts[last.inst], n) = Obj(last.inst))
    => /\ last.err = ""
       /\ \A n \in Range(C12_Shown(last.inst)) :
            GetAttr(classes, insts[last.inst], n) = Obj(last.inst) => C12_Ellipsis(last.text, n)

\* x.a holds y and y.a holds x: repr(x) has ended in a RecursionError
C12_Witness ==
  /\ last.op = "repr" /\ last.inst = 1 /\ last.err = "RecursionError"
  /\ Len(insts) = 2
  /\ HasAttr(classes, insts[1], "a") /\ HasAttr(classes, insts[2], "a")
  /\ GetAttr(classes, insts[1], "a") = Obj(2)
  /\ GetAttr(classes, insts[2], "a") = Obj(1)

\* x.a holds x: repr(x) has returned, with a rendered as `...`
C12_WitnessDirect ==
  /\ last.op = "repr" /\ last.err = ""
  /\ C12_Generated(last.inst)
  /\ HasAttr(classes, insts[last.inst], "a")
  /\ GetAttr(classes, insts[last.inst], "a") = Obj(last.inst)
  /\ C12_Ellipsis(last.text, "a")

-----------------------------------------------------------------------------
(* Keyword-only construction: classes that declare one field each (the     *)
(* first a, the next b with a default, and so on), with a __post_init__ of *)
(* their own or without, below any bases, with kw_only = TRUE given or     *)
(* not; calls of the newest class with up to two positional arguments and  *)
(* any of the keywords a and x.                                            *)

KwOnlyChoices == {EmptyMap, [k \in {"kw_only"} |-> TRUE]}

\* the body of the n-th class
KwOnlyBody(n) ==
  <<[n |-> IF n % 2 = 1 THEN "a" ELSE "b", h |-> {}, d |-> IF n % 2 = 1 THEN "none" ELSE "atom"]>>

NextKwOnly ==
  \/ \E bases \in BaseLists, hook \in {"", "__post_init__"}, kwargs \in KwOnlyChoices :
       Len(classes) < MaxClasses /\ DefineClass(bases, KwOnlyBody(Len(classes) + 1), hook, FALSE, kwargs)
  \/ \E pos \in PosArgs(2), kw \in KwArgs({"a", "x"}) :
       classes # <<>> /\ Call(Len(classes), pos, kw)

SpecKwOnly == Init /\ [][NextKwOnly]_vars

\* the option kw_only is in effect for class c
C13_KwOnly(c) == "kw_only" \in DOMAIN classes[c].opts /\ classes[c].opts["kw_only"]

\* the keywords of the last call name every parameter without a default and
\* nothing that neither the parameters nor a hook takes
C13_AllByKeyword ==
  /\ last.pos = <<>>
  /\ Range(arguments(NewClass.ann, NewClass.defs)) \subseteq DOMAIN last.kw
  /\ (DOMAIN last.kw \subseteq KeySet(NewClass.ann) \/ NewClass.meth["__init__"].user_init)

\* C13: every parameter of the constructor of a record type created with
\* kw_only = TRUE, the parameters of a hook that a descendant adds too, is
\* keyword-only: a call that passes a field or hook argument by position
\* fails, and a call that passes them all by keyword succeeds.
C13_KeywordOnly ==
  (last.op = "call" /\ C13_KwOnly(last.cls) /\ NewClass.meth["__init__"].kind = "init") =>
    /\ last.pos # <<>> => last.err # ""
    /\ C13_AllByKeyword => last.err = ""

\* the half that holds: a call that passes every argument by keyword succeeds
C13_ByKeywordSucceeds ==
  (last.op = "call" /\ C13_KwOnly(last.cls) /\ NewClass.meth["__init__"].kind = "init") =>
    (C13_AllByKeyword => last.err = "")

\* KwOnly{a} with kw_only = TRUE, called as KwOnly(1): the call has
\* succeeded and a is 1
C13_Witness ==
  /\ last.op = "call" /\ C13_KwOnly(last.cls)
  /\ Keys(NewClass.ann) = <<"a">>
  /\ last.pos = <<Atom(1)>> /\ last.kw = EmptyMap
  /\ last.err = ""
  /\ HasAttr(classes, last.obj, "a") /\ GetAttr(classes, last.obj, "a") = Atom(1)

-----------------------------------------------------------------------------
(* Ordering: classes that declare one field each with an int default (the  *)
(* first a, the next b, and so on) below any bases, with order turned on   *)
(* (with or without eq turned off) or off, or with no option; the          *)
(* decorator applied again, with eq turned off or with no option; calls of *)
(* the newest class.                                                       *)

OrderChoices ==
  {EmptyMap, [k \in {"order"} |-> TRUE], [k \in {"order"} |-> FALSE],
   [k \in {"order", "eq"} |-> k = "order"]}

\* the body of the n-th class
OrderBody(n) == <<[n |-> IF n % 2 = 1 THEN "a" ELSE "b", h |-> {}, d |-> "atom"]>>

NextOrder ==
  \/ \E bases \in BaseLists, kwargs \in OrderChoices :
       Len(classes) < MaxClasses /\ DefineClass(bases, OrderBody(Len(classes) + 1), "", FALSE, kwargs)
  \/ \E c \in DOMAIN classes, options \in {EmptyMap, [k \in {"eq"} |-> FALSE]} :
       Len(classes) < MaxClasses /\ ApplyDecorator(c, options)
  \/ classes # <<>> /\ Call(Len(classes), <<>>, EmptyMap)

SpecOrder == Init /\ [][NextOrder]_vars

C14_Comparisons == {"__lt__", "__le__", "__gt__", "__ge__"}

\* the new class finds the comparison m in the dict of the class the
\* decorator was applied to, or in that of one of its bases
C14_Carried(m) ==
  \/ last.op = "decorate" /\ Present(classes[last.inst].meth[m])
  \/ \E i \in DOMAIN NewClass.bases : Present(classes[NewClass.bases[i]].meth[m])

\* C14 as stated: a record type gets a comparison only if ordering is
\* requested and equality generation is enabled; a type with order = TRUE and
\* eq = FALSE gets none, and neither does a type with order = FALSE.
C14_OrderingOnlyWithEq ==
  last.op \in {"define", "decorate"} =>
    \A m \in C14_Comparisons :
      Present(NewClass.meth[m]) => (NewClass.opts["order"] /\ NewClass.opts["eq"])

\* C14, amended: a record type gets __lt__ whenever ordering is requested,
\* with equality generation enabled or not, and __le__, __gt__ and __ge__
\* only when equality generation is enabled as well; besides these it has
\* the comparisons that the class it was made from, or one of its bases,
\* has, and no other: a type without them above it and with order = FALSE
\* has none.
C14_OrderingGenerated ==
  last.op \in {"define", "decorate"} =>
    /\ Present(NewClass.meth["__lt__"]) <=> (NewClass.opts["order"] \/ C14_Carried("__lt__"))
    /\ \A m \in C14_Comparisons \ {"__lt__"} :
         Present(NewClass.meth[m])
           <=> ((NewClass.opts["order"] /\ NewClass.opts["eq"]) \/ C14_Carried(m))

\* a class without bases made with order = TRUE and eq = FALSE: it has the
\* generic __lt__ and none of the other comparisons
C14_Witness ==
  /\ last.op = "define" /\ NewClass.bases = <<>>
  /\ NewClass.opts["order"] /\ ~NewClass.opts["eq"]
  /\ NewClass.meth["__lt__"] = GenericFn("__lt__")
  /\ \A m \in C14_Comparisons \ {"__lt__"} : ~Present(NewClass.meth[m])

\* a class without bases made with order = TRUE: it has all four
C14_WitnessTotal ==
  /\ last.op = "define" /\ NewClass.bases = <<>>
  /\ NewClass.opts["order"] /\ NewClass.opts["eq"]
  /\ \A m \in C14_Comparisons : Present(NewClass.meth[m])

-----------------------------------------------------------------------------
(* Comparison and iteration: a class that declares a and classes below it  *)
(* that declare _c, both with an int default, with order and iter turned   *)
(* on (with or without hide_internals turned off) or with no option;       *)
(* instances of any class made from the defaults; writes of 21 to their    *)
(* fields; x.__lt__(y); unpacking an instance into one or two names.       *)

CompareChoices ==
  {EmptyMap, [k \in {"order", "iter"} |-> TRUE],
   [k \in {"order", "iter", "hide_internals"} |-> k # "hide_internals"]}

\* the body of the n-th class
CompareBody(n) == <<[n |-> IF n = 1 THEN "a" ELSE "_c", h |-> {}, d |-> "atom"]>>

NextCompare ==
  \/ \E bases \in BaseLists, kwargs \in CompareChoices :
       /\ Len(classes) < MaxInstanceClasses
       /\ DefineClass(bases, CompareBody(Len(classes) + 1), "", FALSE, kwargs)
  \/ \E c \in DOMAIN classes : Construct(c, <<>>, EmptyMap)
  \/ \E i \in DOMAIN insts, name \in {"a", "_c"} :
       name \in KeySet(classes[insts[i].cls].ann) /\ Write(i, name, Atom(21))
  \/ \E i \in DOMAIN insts, j \in DOMAIN insts : Less(i, j)
  \/ \E i \in DOMAIN insts, n \in 1..2 : Unpack(i, n)

SpecCompare == Init /\ [][NextCompare]_vars

\* the values that instance i holds in the fields `names`, in their order
C15_Values(i, names) == [k \in DOMAIN names |-> GetAttr(classes, insts[i], names[k])]

\* the field sequence that the statement gives class c: its merged fields,
\* the internal ones among them iff hide_internals is false
C15_Sequence(c) == Keys(fields(classes[c].ann, ~classes[c].opts["hide_internals"]))

\* the generated __eq__, __lt__ and __iter__ of the classes work on the
\* field sequences `seq` (a sequence for each class)
C15_Uses(seq) ==
  /\ \A i, j \in DOMAIN insts :
       (insts[i].cls = insts[j].cls /\ TypeLookup(classes, insts[i].cls, "__eq__") = GenericFn("__eq__"))
         => (Equals(classes, heap, insts, i, j)
               <=> TupleEq(heap, C15_Values(i, seq[insts[i].cls]), C15_Values(j, seq[insts[i].cls])))
  /\ (last.op = "less" /\ last.err = "" /\ insts[last.pos[1].v].cls = last.cls)
       => (last.text = <<"True">>
             <=> TupleLess(heap, C15_Values(last.inst, seq[last.cls]),
                           C15_Values(last.pos[1].v, seq[last.cls])))
  /\ (last.op = "unpack" /\ last.err # "TypeError")
       => IF last.name = ToString(Len(seq[last.cls]))
          THEN last.err = "" /\ last.pos = C15_Values(last.inst, seq[last.cls])
          ELSE last.err = "ValueError"

\* C15: the field sequence that the generated equality, ordering and
\* iteration use includes the internal fields of a type iff its
\* hide_internals option is false: then two instances that differ only in an
\* internal field are unequal and ordered by it, and iteration yields its
\* value; with hide_internals true they are equal, not ordered by it, and
\* unpacking into as many names as there are fields with the hidden ones
\* fails.
C15_InternalsByOption ==
  /\ \A c \in DOMAIN classes : classes[c].tuple = C15_Sequence(c)
  /\ C15_Uses([c \in DOMAIN classes |-> C15_Sequence(c)])

\* what holds instead: the sequence never includes an internal field
C15_InternalsNeverUsed ==
  /\ \A c \in DOMAIN classes : classes[c].tuple = Keys(fields(classes[c].ann, FALSE))
  /\ C15_Uses([c \in DOMAIN classes |-> Keys(fields(classes[c].ann, FALSE))])

\* two instances of a class with hide_internals = FALSE and the fields a
\* and _c that differ in _c only: they are equal, and x.__lt__(y) is False
C15_Witness ==
  /\ last.op = "less" /\ last.inst = 1 /\ last.pos = <<Obj(2)>>
  /\ Len(insts) = 2 /\ insts[1].cls = insts[2].cls
  /\ ~classes[last.cls].opts["hide_internals"]
  /\ Keys(classes[last.cls].ann) = <<"a", "_c">>
  /\ GetAttr(classes, insts[1], "a") = GetAttr(classes, insts[2], "a")
  /\ GetAttr(classes, insts[1], "_c").v < GetAttr(classes, insts[2], "_c").v
  /\ Equals(classes, heap, insts, 1, 2)
  /\ last.text = <<"False">>

-----------------------------------------------------------------------------
(* Members: a class that declares a with an int default and classes        *)
(* without fields, each with a method f of its own or without, below any   *)
(* bases; calls of the newest class.                                       *)

\* the body of the n-th class
MemberBody(n) == IF n = 1 THEN <<[n |-> "a", h |-> {}, d |-> "atom"]>> ELSE <<>>

NextMembers ==
  \/ \E bases \in BaseLists, withF \in BOOLEAN :
       /\ Len(classes) < MaxMethodClasses
       /\ DefineClass(bases, MemberBody(Len(classes) + 1), "", withF, EmptyMap)
  \/ classes # <<>> /\ Call(Len(classes), <<>>, EmptyMap)

SpecMembers == Init /\ [][NextMembers]_vars

\* the places in the linearization of class c of the classes whose own body
\* defines f
C16_Definers(c) ==
  {i \in DOMAIN classes[c].mro : classes[classes[c].mro[i]].meth["f"] = UserFn("f", classes[c].mro[i])}

\* the f of the first class in the linearization of c that defines one
C16_FirstInMro(c) ==
  IF C16_Definers(c) = {} THEN NoFn ELSE UserFn("f", classes[c].mro[Min(C16_Definers(c))])

\* a class whose body defines f has that f, and the generated __init__ and
\* __hash__ of a class are made for that class
C16_OwnKept ==
  /\ (last.op = "define" /\ last.name = "f") => NewClass.meth["f"] = UserFn("f", last.cls)
  /\ \A c \in DOMAIN classes :
       \A m \in {"__init__", "__hash__"} :
         classes[c].meth[m].kind \in {"init", "hash"} => classes[c].meth[m].by = c

\* C16: the merge replaces no method that a user defined and does not change
\* which one a type resolves: for a record type T that does not define f
\* itself, T.f is the f of the first class in T's linearization that defines
\* it (for D(C, B) with C(A), B(A), f defined in A and overridden in B, D.f
\* is B.f), while the generated methods are made anew for each subclass.
C16_MethodResolution ==
  /\ C16_OwnKept
  /\ \A c \in DOMAIN classes : TypeLookup(classes, c, "f") = C16_FirstInMro(c)

\* A defines f, B(A) overrides it, C(A) does not, D(C, B) does not: D.f is
\* A.f, though B comes before A in D's linearization
C16_Witness ==
  /\ Len(classes) = 4
  /\ classes[2].bases = <<1>> /\ classes[3].bases = <<1>> /\ classes[4].bases = <<3, 2>>
  /\ classes[4].mro = <<4, 3, 2, 1>>
  /\ C16_Definers(4) = {3, 4}
  /\ TypeLookup(classes, 4, "f") = UserFn("f", 1)

-----------------------------------------------------------------------------
(* Descendants: classes that declare two fields each (a and b with a       *)
(* default, or b and _c with other defaults) below any bases, with an      *)
(* option or none; the decorator applied again with an option or none;     *)
(* calls of the newest class.                                              *)

FrameChoices == {EmptyMap, [k \in {"slots"} |-> TRUE], [k \in {"eq"} |-> FALSE]}

\* the body of the n-th class
FrameBody(n) ==
  IF n % 2 = 1
  THEN <<[n |-> "a", h |-> {}, d |-> "none"], [n |-> "b", h |-> {}, d |-> "atom"]>>
  ELSE <<[n |-> "b", h |-> {}, d |-> "atom"], [n |-> "_c", h |-> {}, d |-> "atom"]>>

NextFrame ==
  \/ \E bases \in BaseLists, kwargs \in FrameChoices :
       Len(classes) < MaxClasses /\ DefineClass(bases, FrameBody(Len(classes) + 1), "", FALSE, kwargs)
  \/ \E c \in DOMAIN classes, options \in FrameChoices :
       Len(classes) < MaxClasses /\ ApplyDecorator(c, options)
  \/ classes # <<>> /\ Call(Len(classes), <<Atom(1)>>, EmptyMap)

SpecFrame == Init /\ [][NextFrame]_vars

\* what a record type stores for its descendants: the field list in its
\* order, the default map and the option set
C18_Stored(c) == [ann |-> c.ann, defs |-> c.defs, opts |-> c.opts]

\* C18: defining a descendant, by a class statement below record types or by
\* the decorator, with any options and with new or redeclared fields, leaves
\* the stored field list and its order, the default map and the option set
\* of every class that exists unchanged.
C18_AncestorsUnchanged ==
  [][\A c \in DOMAIN classes :
       c \in DOMAIN classes' /\ C18_Stored(classes'[c]) = C18_Stored(classes[c])]_vars

\* the first class declares a and b = 11; the second, below it, redeclares b
\* with another default, adds _c and asks for slots; the third, below the
\* second, redeclares a and b; the first class still stores what its own
\* statement gave it
C18_Witness ==
  /\ Len(classes) = 3
  /\ last.op = "define"
  /\ NewClass.bases = <<2>>
  /\ classes[2].bases = <<1>>
  /\ classes[2].opts["slots"]
  /\ Keys(NewClass.ann) = <<"a", "b", "_c">>
  /\ NewClass.defs["b"] = Atom(13)
  /\ classes[2].defs["b"] = Atom(12)
  /\ Keys(classes[1].ann) = <<"a", "b">>
  /\ classes[1].defs = [k \in {"b"} |-> Atom(11)]
  /\ classes[1].opts = DEFAULT_OPTIONS

\* the decorator applied with eq=False to a class made with the default
\* options: the class it was applied to keeps eq=True
C18_WitnessDecorator ==
  /\ last.op = "decorate"
  /\ ~NewClass.opts["eq"]
  /\ classes[last.inst].opts["eq"]
  /\ Keys(classes[last.inst].ann) = Keys(NewClass.ann)

-----------------------------------------------------------------------------
(* Hashing and equality: classes that declare one field each with an int   *)
(* default (the first a with any of Internal and Hashed, the next _c,      *)
(* Hashed or not, and so on) below any bases, frozen or not; instances of  *)
(* any class made from the defaults or with one field given by keyword.    *)

HashChoices == {EmptyMap, [k \in {"frozen"} |-> TRUE]}

\* the bodies the n-th class may have
HashBodies(n) ==
  IF n % 2 = 1
  THEN {<<[n |-> "a", h |-> hh, d |-> "atom"]>> : hh \in SUBSET {"Internal", "Hashed"}}
  ELSE {<<[n |-> "_c", h |-> hh, d |-> "atom"]>> : hh \in {{}, {"Hashed"}}}

HashKeywords == {EmptyMap} \cup {[k \in {name} |-> KwVal(name)] : name \in {"a", "_c"}}

NextHash ==
  \/ \E bases \in BaseLists, decls \in HashBodies(Len(classes) + 1), kwargs \in HashChoices :
       /\ Len(classes) < MaxInstanceClasses
       /\ DefineClass(bases, decls, "", FALSE, kwargs)
  \/ \E c \in DOMAIN classes, kw \in HashKeywords : Construct(c, <<>>, kw)

SpecHash == Init /\ [][NextHash]_vars

\* instance i is of a type with the generated __eq__ and a generated __hash__
C19_Generated(i) ==
  /\ TypeLookup(classes, insts[i].cls, "__eq__") = GenericFn("__eq__")
  /\ TypeLookup(classes, insts[i].cls, "__hash__").kind = "hash"

\* the tuple that hash(insts[i]) hashes; the values are small ints, of which
\* two different tuples have different hashes
C19_Hash(i) == hash_of(TypeLookup(classes, insts[i].cls, "__hash__"), classes, insts[i])

\* C19: for every record type with the generated __eq__ and the generated
\* __hash__, frozen with eq in particular, and any two of its instances a
\* and b, a == b implies hash(a) == hash(b), whatever fields are Internal
\* or Hashed.
C19_EqualHashEqual ==
  \A i, j \in DOMAIN insts :
    (C19_Generated(i) /\ Equals(classes, heap, insts, i, j)) => C19_Hash(i) = C19_Hash(j)

\* class c has a field that is hashed and is left out of the comparison
C19_HashedInternal(c) == \E e \in Range(classes[c].ann) : is_hinted("Hashed", e) /\ IsInternal(e)

\* the same for the types of which every Hashed field is compared as well
C19_PublicHashed ==
  \A i, j \in DOMAIN insts :
    (C19_Generated(i) /\ ~C19_HashedInternal(insts[i].cls) /\ Equals(classes, heap, insts, i, j))
      => C19_Hash(i) = C19_Hash(j)

\* two instances of a frozen class whose only field is Hashed and internal,
\* made with different values of it: they are equal and hash differently
C19_Witness ==
  /\ Len(insts) = 2 /\ insts[1].cls = insts[2].cls
  /\ classes[insts[1].cls].opts["frozen"] /\ classes[insts[1].cls].opts["eq"]
  /\ C19_Generated(1)
  /\ C19_HashedInternal(insts[1].cls)
  /\ Len(classes[insts[1].cls].ann) = 1
  /\ Equals(classes, heap, insts, 1, 2)
  /\ C19_Hash(1) # C19_Hash(2)

\* two instances of a frozen class with a: Hashed, both made with a=21:
\* they are equal and hash alike
C19_WitnessPublic ==
  /\ Len(insts) = 2 /\ insts[1].cls = insts[2].cls
  /\ classes[insts[1].cls].opts["frozen"]
  /\ C19_Generated(1)
  /\ Hinted("Hashed", classes[insts[1].cls].ann) = <<"a">>
  /\ ~C19_HashedInternal(insts[1].cls)
  /\ GetAttr(classes, insts[1], "a") = KwVal("a")
  /\ Equals(classes, heap, insts, 1, 2)
  /\ C19_Hash(1) = C19_Hash(2)

====
